---- MODULE Spec2Model ----
(***************************************************************************)
(* diary_bot.py: the Telegram conversation that collects a diary entry,    *)
(* the Notion synchronisation of that entry, and the job queue that sends  *)
(* the daily prompt, its retries and the reminder ladder.                  *)
(*                                                                         *)
(* Time is the local (Europe/Zurich) wall clock counted in ticks of five   *)
(* minutes from midnight of day 0; every delay of the program is a whole   *)
(* number of ticks.  Texts are strings, an emoji reply is a sequence of    *)
(* code points, a Notion page id is the page's index in `pages`, a block   *)
(* id is the block's index in its page.                                    *)
(***************************************************************************)
EXTENDS Integers, Sequences, FiniteSets, TLC

\* ------------------------------------------------------------------ bounds
MaxDays == 1        \* days the clock runs over
MaxStarts == 2      \* process starts in one behaviour
MaxPages == 2       \* pages the Notion database may hold
MaxPhotos == 2      \* photos one session may collect
MaxBlocks == 8      \* blocks one page may grow to
MaxTextLen == 4     \* characters one paragraph may grow to
MaxRemote == 3      \* pages the database holds before the first start

\* ------------------------------------------------------- program constants
Minutes(m) == m \div 5
TicksPerDay == Minutes(24 * 60)
PromptTime == Minutes(20 * 60)
RetryDelay == Minutes(5)
FirstReminderDelay == Minutes(2 * 60)
next_reminder_delays == <<Minutes(30), Minutes(90)>>
reminder_messages == <<"gentle nudge", "me again", "final reminder">>
MaxRetries == 3
PageSize == 100
heading_map == [memorable |-> "How was the day?", grateful |-> "Grateful for",
                worries |-> "Worries"]
NoWorries == {"none", "no", "nope"}

\* ------------------------------------------------------------------ state
VARIABLES
    running,        \* the process is up (between main() and its shutdown)
    starts,         \* process starts so far
    now,            \* local wall clock, in ticks
    utcOffset,      \* offset of Europe/Zurich from UTC, in ticks
    jobs,           \* application.job_queue: the pending jobs
    chat,           \* the last context.bot.send_message call of a job
    chain,          \* the prompt deliveries attempted today in this process run
    conv,           \* state of the ConversationHandler "diary_conversation"
    user_data,      \* context.user_data: the draft
    diary_entries,  \* context.bot_data["diary_entries"]: the entry index
    pages,          \* the Notion database
    api             \* the Notion requests of the last step, in call order

vars == <<running, starts, now, utcOffset, jobs, chat, chain, conv, user_data,
          diary_entries, pages, api>>

schedVars == <<running, starts, now, jobs, chat, chain>>
convVars == <<conv, user_data>>

\* ------------------------------------------------------------ dictionaries
EmptyDict == <<>>
Get(d, k, dflt) == IF k \in DOMAIN d THEN d[k] ELSE dflt
Put(d, k, v) == [x \in (DOMAIN d) \cup {k} |-> IF x = k THEN v ELSE d[x]]
None == <<>>

\* ------------------------------------------------------------------- clock
DateOf(t) == t \div TicksPerDay
TimeOfDay(t) == t % TicksPerDay
get_today_iso == DateOf(now)
LastTick == MaxDays * TicksPerDay

HasEntry(day) == day \in DOMAIN diary_entries
TodayPageId == IF HasEntry(get_today_iso) THEN diary_entries[get_today_iso].page_id ELSE 0

\* ------------------------------------------------------------ Notion pages
Heading(text) == [type |-> "heading_2", text |-> text]
Paragraph(text) == [type |-> "paragraph", text |-> text]
Image(url) == [type |-> "image", text |-> url]

HasText(ud, k) == k \in DOMAIN ud /\ ud[k] # ""
HasPhotos(ud) == "photos" \in DOMAIN ud /\ ud["photos"] # <<>>

\* A section written without its paragraph.
Section_HeadingOnly(ud, k) ==
    IF HasText(ud, k) THEN <<Heading(heading_map[k])>> ELSE <<>>

Section(ud, k) ==
    IF HasText(ud, k) THEN <<Heading(heading_map[k]), Paragraph(ud[k])>> ELSE <<>>

PhotoBlocks(photos) == [i \in 1..Len(photos) |-> Image(photos[i])]

\* build_notion_page_content putting the photos before the texts.
build_notion_page_content_PicsFirst(ud) ==
    (IF HasPhotos(ud) THEN <<Heading("Pics")>> \o PhotoBlocks(ud["photos"]) ELSE <<>>)
    \o Section(ud, "memorable") \o Section(ud, "grateful") \o Section(ud, "worries")

build_notion_page_content(ud) ==
    Section(ud, "memorable") \o Section(ud, "grateful") \o Section(ud, "worries")
    \o (IF HasPhotos(ud) THEN <<Heading("Pics")>> \o PhotoBlocks(ud["photos"]) ELSE <<>>)

\* The page a successful POST /v1/pages stores.  `parses` says that the
\* page's object in a query response has the keys and the timestamp format
\* post_init_setup reads.
NewPage(ud) ==
    [ created |-> now - utcOffset,
      parses |-> TRUE,
      S |-> Get(ud, "checkbox_s", FALSE),
      Sleep |-> Get(ud, "checkbox_sleep_separate", FALSE),
      Tears |-> Get(ud, "checkbox_tears", FALSE),
      Photos |-> HasPhotos(ud),
      icon |-> Get(ud, "icon", None),
      blocks |-> build_notion_page_content(ud) ]

Call(op, ok) == [op |-> op, ok |-> ok]

\* create_notion_page registering the entry whatever the request's outcome.
create_notion_page_AlwaysRegisters(ud, ok) ==
    /\ api' = <<Call("createPage", ok)>>
    /\ pages' = IF ok THEN Append(pages, NewPage(ud)) ELSE pages
    /\ diary_entries' = Put(diary_entries, get_today_iso,
                            [page_id |-> Len(pages) + 1, icon |-> Get(ud, "icon", None)])

create_notion_page(ud, ok) ==
    /\ api' = <<Call("createPage", ok)>>
    /\ IF ok
       THEN /\ pages' = Append(pages, NewPage(ud))
            /\ diary_entries' = Put(diary_entries, get_today_iso,
                                    [page_id |-> Len(pages) + 1, icon |-> Get(ud, "icon", None)])
       ELSE UNCHANGED <<pages, diary_entries>>

\* The page after a successful PATCH /v1/pages/{page_id} of the three
\* checkboxes and, when the draft has one, the icon.
PatchedProperties(p, ud) ==
    [p EXCEPT !.S = Get(ud, "checkbox_s", FALSE),
              !.Sleep = Get(ud, "checkbox_sleep_separate", FALSE),
              !.Tears = Get(ud, "checkbox_tears", FALSE),
              !.icon = IF Get(ud, "icon", None) # None THEN ud["icon"] ELSE @]

update_notion_page_properties(page_id, ud, ok) ==
    /\ api' = <<Call("patchPageProperties", ok)>>
    /\ pages' = IF ok THEN [pages EXCEPT ![page_id] = PatchedProperties(@, ud)] ELSE pages

Appended(ps, page_id, blocks) ==
    [ps EXCEPT ![page_id].blocks = @ \o blocks]

\* ------------------------------------------------------------------ emoji
InRange(c, lo, hi) == lo <= c /\ c <= hi

\* One character of the pattern's class.
emoji_pattern(c) ==
    \/ InRange(c, 128512, 128591)    \* 1F600-1F64F emoticons
    \/ InRange(c, 127744, 128511)    \* 1F300-1F5FF symbols & pictographs
    \/ InRange(c, 128640, 128767)    \* 1F680-1F6FF transport & map symbols
    \/ InRange(c, 128768, 128895)    \* 1F700-1F77F alchemical symbols
    \/ InRange(c, 128896, 129023)    \* 1F780-1F7FF geometric shapes extended
    \/ InRange(c, 129024, 129279)    \* 1F800-1F8FF supplemental arrows-C
    \/ InRange(c, 129280, 129535)    \* 1F900-1F9FF supplemental symbols
    \/ InRange(c, 129536, 129647)    \* 1FA00-1FA6F chess symbols
    \/ InRange(c, 129648, 129791)    \* 1FA70-1FAFF symbols extended-A
    \/ InRange(c, 9986, 10160)       \* 2702-27B0 dingbats
    \/ InRange(c, 9410, 127569)      \* 24C2-1F251

\* len(s) == 1 and emoji_pattern.match(s): match anchors at the first
\* character only, and the class must match at least once.
is_valid_emoji(s) == Len(s) = 1 /\ emoji_pattern(s[1])

\* ------------------------------------------------- conversation handlers
\* start_update: marks the draft as an update and shows the menu.
start_update(ud) ==
    /\ user_data' = Put(ud, "is_update", TRUE)
    /\ conv' = "UPDATING_MENU"

IsUpdate(ud) == Get(ud, "is_update", FALSE)

\* ask_checkboxes: the three flags default to False.
CheckboxKeys == {"checkbox_s", "checkbox_sleep_separate", "checkbox_tears"}
ask_checkboxes(ud) ==
    [x \in (DOMAIN ud) \cup CheckboxKeys |-> IF x \in DOMAIN ud THEN ud[x] ELSE FALSE]

\* ask_photos: the photo list defaults to [].
ask_photos(ud) == IF "photos" \in DOMAIN ud THEN ud ELSE Put(ud, "photos", <<>>)

\* /start, an entry point that is also accepted in every state (allow_reentry).
start ==
    /\ running
    /\ user_data' = EmptyDict
    /\ conv' = IF HasEntry(get_today_iso) THEN "ASKING_UPDATE" ELSE "MEMORABLE"
    /\ api' = <<>>
    /\ UNCHANGED <<schedVars, utcOffset, diary_entries, pages>>

\* "Yes, update it" in ASKING_UPDATE.
yes_update ==
    /\ running /\ conv = "ASKING_UPDATE"
    /\ start_update(user_data)
    /\ api' = <<>>
    /\ UNCHANGED <<schedVars, utcOffset, diary_entries, pages>>

\* "No, cancel" in ASKING_UPDATE.
cancel_update ==
    /\ running /\ conv = "ASKING_UPDATE"
    /\ conv' = "END"
    /\ api' = <<>>
    /\ UNCHANGED <<schedVars, utcOffset, user_data, diary_entries, pages>>

memorable(text) ==
    /\ running /\ conv = "MEMORABLE"
    /\ user_data' = Put(user_data, "memorable", text)
    /\ conv' = "GRATEFUL"
    /\ api' = <<>>
    /\ UNCHANGED <<schedVars, utcOffset, diary_entries, pages>>

grateful(text) ==
    /\ running /\ conv = "GRATEFUL"
    /\ user_data' = Put(user_data, "grateful", text)
    /\ conv' = "WORRIES"
    /\ api' = <<>>
    /\ UNCHANGED <<schedVars, utcOffset, diary_entries, pages>>

\* A comparison that keeps the case of the reply.
lower_KeepsCase(text) == text

\* str.lower() on the replies the model sends; the others are in lower case.
lower(text) ==
    CASE text = "None" -> "none"
      [] text = "NONE" -> "none"
      [] text = "nonE" -> "none"
      [] text = "NO" -> "no"
      [] text = "No" -> "no"
      [] text = "nO" -> "no"
      [] text = "Nope" -> "nope"
      [] text = "NOPE" -> "nope"
      [] text = "Nothing" -> "nothing"
      [] text = "No." -> "no."
      [] text = "A" -> "a"
      [] text = "B" -> "b"
      [] OTHER -> text

worries(text) ==
    /\ running /\ conv = "WORRIES"
    /\ user_data' = ask_checkboxes(IF lower(text) \notin NoWorries
                                   THEN Put(user_data, "worries", text)
                                   ELSE user_data)
    /\ conv' = "ASKING_CHECKBOXES"
    /\ api' = <<>>
    /\ UNCHANGED <<schedVars, utcOffset, diary_entries, pages>>

toggle_map == [toggle_s |-> "checkbox_s", toggle_sleep |-> "checkbox_sleep_separate",
               toggle_tears |-> "checkbox_tears"]

toggle_checkbox(data) ==
    /\ running /\ conv = "ASKING_CHECKBOXES"
    /\ user_data' = IF data \in DOMAIN toggle_map
                    THEN Put(user_data, toggle_map[data],
                             ~Get(user_data, toggle_map[data], FALSE))
                    ELSE user_data
    /\ api' = <<>>
    /\ UNCHANGED <<schedVars, utcOffset, conv, diary_entries, pages>>

\* done_checkboxes saving the draft of a new entry as soon as the flags are set.
done_checkboxes_SavesDraft(ok) ==
    /\ running /\ conv = "ASKING_CHECKBOXES"
    /\ IF IsUpdate(user_data)
       THEN /\ IF TodayPageId # 0
               THEN update_notion_page_properties(TodayPageId, user_data, ok)
               ELSE api' = <<>> /\ UNCHANGED pages
            /\ start_update(user_data)
            /\ UNCHANGED diary_entries
       ELSE /\ conv' = "ASKING_EMOJI"
            /\ create_notion_page(user_data, ok)
            /\ UNCHANGED user_data
    /\ UNCHANGED <<schedVars, utcOffset>>

\* done_checkboxes going on to the emoji question whatever the mode.
done_checkboxes_IgnoresMode(ok) ==
    /\ running /\ conv = "ASKING_CHECKBOXES"
    /\ IF IsUpdate(user_data) /\ TodayPageId # 0
       THEN update_notion_page_properties(TodayPageId, user_data, ok)
       ELSE api' = <<>> /\ UNCHANGED pages
    /\ conv' = "ASKING_EMOJI"
    /\ UNCHANGED <<schedVars, utcOffset, user_data, diary_entries>>

done_checkboxes(ok) ==
    /\ running /\ conv = "ASKING_CHECKBOXES"
    /\ IF IsUpdate(user_data)
       THEN /\ IF TodayPageId # 0
               THEN update_notion_page_properties(TodayPageId, user_data, ok)
               ELSE api' = <<>> /\ UNCHANGED pages
            /\ start_update(user_data)
       ELSE /\ conv' = "ASKING_EMOJI"
            /\ api' = <<>>
            /\ UNCHANGED <<user_data, pages>>
    /\ UNCHANGED <<schedVars, utcOffset, diary_entries>>

\* Any text that is not a command, in ASKING_EMOJI.  The handler of "Skip"
\* (skip_emoji) is registered after this one, which already takes every text,
\* "Skip" included.
emoji(user_emoji, ok) ==
    /\ running /\ conv = "ASKING_EMOJI"
    /\ LET ud == IF is_valid_emoji(user_emoji)
                 THEN Put(user_data, "icon", user_emoji) ELSE user_data
       IN IF IsUpdate(ud)
          THEN /\ IF TodayPageId # 0
                  THEN /\ update_notion_page_properties(TodayPageId, ud, ok)
                       /\ diary_entries' =
                              [diary_entries EXCEPT ![get_today_iso].icon = Get(ud, "icon", None)]
                  ELSE api' = <<>> /\ UNCHANGED <<pages, diary_entries>>
               /\ start_update(ud)
          ELSE /\ user_data' = ask_photos(ud)
               /\ conv' = "PHOTO"
               /\ api' = <<>>
               /\ UNCHANGED <<pages, diary_entries>>
    /\ UNCHANGED <<schedVars, utcOffset>>

photo(file_path) ==
    /\ running /\ conv = "PHOTO"
    /\ user_data' = [user_data EXCEPT !["photos"] = Append(@, file_path)]
    /\ api' = <<>>
    /\ UNCHANGED <<schedVars, utcOffset, conv, diary_entries, pages>>

\* done_photo creating a page whatever the mode of the session.
done_photo_IgnoresMode(ok1, ok2) ==
    /\ running /\ conv = "PHOTO"
    /\ create_notion_page(user_data, ok1)
    /\ IF IsUpdate(user_data) THEN start_update(user_data)
                              ELSE conv' = "END" /\ UNCHANGED user_data
    /\ UNCHANGED <<schedVars, utcOffset>>

\* "Done" in PHOTO.  ok1 and ok2 are the outcomes of the Notion requests, in
\* call order.
done_photo(ok1, ok2) ==
    /\ running /\ conv = "PHOTO"
    /\ IF IsUpdate(user_data)
       THEN /\ IF TodayPageId # 0 /\ HasPhotos(user_data)
               THEN /\ api' = <<Call("appendBlocks", ok1), Call("patchPageProperties", ok2)>>
                    /\ pages' =
                         LET appended == IF ok1
                                         THEN Appended(pages, TodayPageId,
                                                       PhotoBlocks(user_data["photos"]))
                                         ELSE pages
                         IN IF ok2 THEN [appended EXCEPT ![TodayPageId].Photos = TRUE]
                                   ELSE appended
               ELSE api' = <<>> /\ UNCHANGED pages
            /\ start_update(user_data)
            /\ UNCHANGED diary_entries
       ELSE /\ create_notion_page(user_data, ok1)
            /\ conv' = "END"
            /\ UNCHANGED user_data
    /\ UNCHANGED <<schedVars, utcOffset>>

MenuStates == [update_memorable |-> "UPDATING_MEMORABLE",
               update_grateful |-> "UPDATING_GRATEFUL",
               update_worries |-> "UPDATING_WORRIES",
               update_photos |-> "PHOTO",
               update_checkboxes |-> "ASKING_CHECKBOXES",
               update_emoji |-> "ASKING_EMOJI"]

\* A button press (callback query) in UPDATING_MENU.
updating_menu_handler(action) ==
    /\ running /\ conv = "UPDATING_MENU"
    /\ conv' = CASE action = "finish_updating" -> "END"
                 [] action \in DOMAIN MenuStates -> MenuStates[action]
                 [] OTHER -> "UPDATING_MENU"
    /\ user_data' = CASE action = "update_photos" -> ask_photos(user_data)
                      [] action = "update_checkboxes" -> ask_checkboxes(user_data)
                      [] OTHER -> user_data
    /\ api' = <<>>
    /\ UNCHANGED <<schedVars, utcOffset, diary_entries, pages>>

\* The loop over the queried blocks: the id (index) of the paragraph right
\* after the first heading with the label, 0 for target_block_id = None.
RECURSIVE ScanBlocks(_, _, _, _)
ScanBlocks(blocks, i, found_heading, label) ==
    IF i > Len(blocks) THEN 0
    ELSE IF found_heading
         THEN (IF blocks[i].type = "paragraph" THEN i ELSE 0)
         ELSE ScanBlocks(blocks, i + 1,
                         /\ blocks[i].type = "heading_2"
                         /\ blocks[i].text # ""
                         /\ blocks[i].text = label,
                         label)

\* GET /v1/blocks/{page_id}/children?page_size=100: the first page of results.
QueryBlocks(page_id) ==
    LET all == pages[page_id].blocks
    IN IF Len(all) <= PageSize THEN all ELSE SubSeq(all, 1, PageSize)

UpdatingField == [UPDATING_MEMORABLE |-> "memorable", UPDATING_GRATEFUL |-> "grateful",
                  UPDATING_WORRIES |-> "worries"]

\* update_text_field taking a failed block query for an empty page: it
\* appends the section.
update_text_field_AppendsBlind(field, new_text, okq, okw) ==
    /\ running /\ conv \in DOMAIN UpdatingField /\ UpdatingField[conv] = field
    /\ IF TodayPageId = 0
       THEN api' = <<>> /\ UNCHANGED pages
       ELSE LET page_id == TodayPageId
                blocks == IF okq THEN QueryBlocks(page_id) ELSE <<>>
                target_block_id == ScanBlocks(blocks, 1, FALSE, heading_map[field])
            IN IF target_block_id # 0
               THEN /\ api' = <<Call("queryBlocks", okq), Call("patchBlock", okw)>>
                    /\ pages' = IF okw
                                THEN [pages EXCEPT ![page_id].blocks[target_block_id].text =
                                                       @ \o "\n\n" \o new_text]
                                ELSE pages
               ELSE /\ api' = <<Call("queryBlocks", okq), Call("appendBlocks", okw)>>
                    /\ pages' = IF okw
                                THEN Appended(pages, page_id,
                                              <<Heading(heading_map[field]), Paragraph(new_text)>>)
                                ELSE pages
    /\ start_update(user_data)
    /\ UNCHANGED <<schedVars, utcOffset, diary_entries>>

\* A text in UPDATING_MEMORABLE, UPDATING_GRATEFUL or UPDATING_WORRIES.
\* okq is the outcome of the block query, okw of the write that follows it.
update_text_field(field, new_text, okq, okw) ==
    /\ running /\ conv \in DOMAIN UpdatingField /\ UpdatingField[conv] = field
    /\ IF TodayPageId = 0
       THEN api' = <<>> /\ UNCHANGED pages
       ELSE IF ~okq
       THEN api' = <<Call("queryBlocks", FALSE)>> /\ UNCHANGED pages
       ELSE LET page_id == TodayPageId
                blocks == QueryBlocks(page_id)
                target_block_id == ScanBlocks(blocks, 1, FALSE, heading_map[field])
            IN IF target_block_id # 0
               THEN LET combined_text == blocks[target_block_id].text \o "\n\n" \o new_text
                    IN /\ api' = <<Call("queryBlocks", TRUE), Call("patchBlock", okw)>>
                       /\ pages' = IF okw
                                   THEN [pages EXCEPT ![page_id].blocks[target_block_id].text =
                                                          combined_text]
                                   ELSE pages
               ELSE /\ api' = <<Call("queryBlocks", TRUE), Call("appendBlocks", okw)>>
                    /\ pages' = IF okw
                                THEN Appended(pages, page_id,
                                              <<Heading(heading_map[field]), Paragraph(new_text)>>)
                                ELSE pages
    /\ start_update(user_data)
    /\ UNCHANGED <<schedVars, utcOffset, diary_entries>>

\* /cancel leaving the draft as it is.
cancel_KeepsDraft ==
    /\ running /\ conv # "END"
    /\ conv' = "END"
    /\ api' = <<>>
    /\ UNCHANGED <<schedVars, utcOffset, user_data, diary_entries, pages>>

\* /cancel, the fallback of every state of an active conversation.
cancel ==
    /\ running /\ conv # "END"
    /\ user_data' = EmptyDict
    /\ conv' = "END"
    /\ api' = <<>>
    /\ UNCHANGED <<schedVars, utcOffset, diary_entries, pages>>

\* ---------------------------------------------------------------- job queue
PromptJobs == {"daily_prompt", "daily_prompt_retry", "missed_prompt_startup"}

Job(kind, due, count, origin) ==
    [kind |-> kind, due |-> due, count |-> count, origin |-> origin]

Sent(msg, count, outcome) ==
    [msg |-> msg, count |-> count, outcome |-> outcome, flip |-> 1 - chat.flip]

\* daily_prompt retrying once more than it does.
AfterPrompt_OneMoreRetry(retry_count, outcome) ==
    CASE outcome = "ok" ->
           {Job("reminder", now + FirstReminderDelay, 0, get_today_iso)}
      [] outcome = "network" /\ retry_count <= MaxRetries ->
           {Job("daily_prompt_retry", now + RetryDelay, retry_count + 1, get_today_iso)}
      [] OTHER -> {}

\* daily_prompt retrying after every exception, not only NetworkError.
AfterPrompt_RetriesAnyError(retry_count, outcome) ==
    CASE outcome = "ok" ->
           {Job("reminder", now + FirstReminderDelay, 0, get_today_iso)}
      [] outcome # "ok" /\ retry_count < MaxRetries ->
           {Job("daily_prompt_retry", now + RetryDelay, retry_count + 1, get_today_iso)}
      [] OTHER -> {}

\* daily_prompt starting the reminder ladder after a network error as well.
AfterPrompt_LadderOnFailure(retry_count, outcome) ==
    CASE outcome = "ok" ->
           {Job("reminder", now + FirstReminderDelay, 0, get_today_iso)}
      [] outcome = "network" /\ retry_count < MaxRetries ->
           {Job("daily_prompt_retry", now + RetryDelay, retry_count + 1, get_today_iso),
            Job("reminder", now + FirstReminderDelay, 0, get_today_iso)}
      [] OTHER -> {}

\* What daily_prompt schedules after its send_message call.
AfterPrompt(retry_count, outcome) ==
    CASE outcome = "ok" ->
           {Job("reminder", now + FirstReminderDelay, 0, get_today_iso)}
      [] outcome = "network" /\ retry_count < MaxRetries ->
           {Job("daily_prompt_retry", now + RetryDelay, retry_count + 1, get_today_iso)}
      [] OTHER -> {}

\* A job of run_daily fires again a day later; a job of run_once is gone.
Fired(j) ==
    IF j.kind = "daily_prompt"
    THEN (jobs \ {j}) \cup {[j EXCEPT !.due = @ + TicksPerDay]}
    ELSE jobs \ {j}

\* daily_prompt without its look at the index.
daily_prompt_IgnoresEntry(j, outcome) ==
    /\ running /\ j \in jobs /\ j.kind \in PromptJobs /\ j.due = now
    /\ chat' = Sent("prompt", j.count, outcome)
    /\ chain' = [count |-> chain.count + 1,
                 delivered |-> chain.delivered \/ outcome = "ok"]
    /\ jobs' = Fired(j) \cup AfterPrompt(j.count, outcome)
    /\ api' = <<>>
    /\ UNCHANGED <<running, starts, now, utcOffset, convVars, diary_entries, pages>>

\* The job daily_prompt: the daily trigger, one of its retries or the
\* start-up catch-up.  outcome is what send_message does: it returns ("ok"),
\* raises NetworkError ("network") or raises another exception ("other").
daily_prompt(j, outcome) ==
    /\ running /\ j \in jobs /\ j.kind \in PromptJobs /\ j.due = now
    /\ IF HasEntry(get_today_iso)
       THEN /\ jobs' = Fired(j)
            /\ UNCHANGED <<chat, chain>>
       ELSE /\ chat' = Sent("prompt", j.count, outcome)
            /\ chain' = [count |-> chain.count + 1,
                         delivered |-> chain.delivered \/ outcome = "ok"]
            /\ jobs' = Fired(j) \cup AfterPrompt(j.count, outcome)
    /\ api' = <<>>
    /\ UNCHANGED <<running, starts, now, utcOffset, convVars, diary_entries, pages>>

\* What send_reminder schedules after its send_message call returned.
AfterReminder(current_reminder, origin) ==
    IF current_reminder < Len(next_reminder_delays)
    THEN {Job("reminder", now + next_reminder_delays[current_reminder + 1],
              current_reminder + 1, origin)}
    ELSE {}

\* The job send_reminder.  An exception of send_message ends the job before
\* it schedules the next rung.
send_reminder(j, outcome) ==
    /\ running /\ j \in jobs /\ j.kind = "reminder" /\ j.due = now
    /\ IF HasEntry(get_today_iso)
       THEN /\ jobs' = jobs \ {j}
            /\ UNCHANGED chat
       ELSE /\ chat' = IF j.count < Len(reminder_messages)
                       THEN Sent(reminder_messages[j.count + 1], j.count, outcome)
                       ELSE chat
            /\ jobs' = (jobs \ {j}) \cup
                       (IF j.count < Len(reminder_messages) /\ outcome # "ok"
                        THEN {} ELSE AfterReminder(j.count, j.origin))
    /\ api' = <<>>
    /\ UNCHANGED <<running, starts, now, utcOffset, chain, convVars, diary_entries, pages>>

\* ------------------------------------------------------------ the process
NoChain == [count |-> 0, delivered |-> FALSE]

\* The loop of post_init_setup over the query's results: the date of an
\* entry is the date part of created_time, a UTC timestamp; a result that
\* raises KeyError, IndexError or ValueError is skipped.
RECURSIVE SyncLoop(_, _, _)
SyncLoop(results, i, synced_entries) ==
    IF i > Len(results) THEN synced_entries
    ELSE SyncLoop(results, i + 1,
                  IF results[i].parses
                  THEN Put(synced_entries, DateOf(results[i].created),
                           [page_id |-> i, icon |-> results[i].icon])
                  ELSE synced_entries)

\* run_daily: the next 20:00.
NextPromptTime ==
    IF TimeOfDay(now) <= PromptTime
    THEN get_today_iso * TicksPerDay + PromptTime
    ELSE (get_today_iso + 1) * TicksPerDay + PromptTime

\* main() and post_init_setup.  The pickle file has kept bot_data, user_data
\* and the conversation state; the job queue starts empty.  okq is the
\* outcome of the database query.
Start(okq) ==
    /\ ~running /\ starts < MaxStarts
    /\ running' = TRUE
    /\ starts' = starts + 1
    /\ LET sync == diary_entries = EmptyDict
           entries == IF sync /\ okq THEN SyncLoop(pages, 1, EmptyDict) ELSE diary_entries
       IN /\ diary_entries' = entries
          /\ api' = IF sync THEN <<Call("queryDatabase", okq)>> ELSE <<>>
          /\ jobs' = {Job("daily_prompt", NextPromptTime, 0, 0)} \cup
                     (IF TimeOfDay(now) > PromptTime /\ get_today_iso \notin DOMAIN entries
                      THEN {Job("missed_prompt_startup", now, 0, get_today_iso)}
                      ELSE {})
    /\ chain' = NoChain
    /\ UNCHANGED <<now, utcOffset, chat, convVars, pages>>

\* The process shuts down: the job queue is lost, the pickle file is kept.
Stop ==
    /\ running
    /\ running' = FALSE
    /\ jobs' = {}
    /\ api' = <<>>
    /\ UNCHANGED <<starts, now, utcOffset, chat, chain, convVars, diary_entries, pages>>

\* The clock moves on to t.  A job that is due runs before the clock passes it.
Advance(t) ==
    /\ now < t /\ t <= LastTick
    /\ running => \A j \in jobs : j.due > now /\ j.due >= t
    /\ now' = t
    /\ chain' = IF DateOf(t) = get_today_iso THEN chain ELSE NoChain
    /\ api' = <<>>
    /\ UNCHANGED <<running, starts, utcOffset, jobs, chat, convVars, diary_entries, pages>>

\* ------------------------------------------------------------------ inputs
Outcomes == {"ok", "network", "other"}
Smile == <<128512>>          \* U+1F600
Skip == <<83, 107, 105, 112>>

\* Telegram gives every photo of a session a file path of its own.
PhotoName(i) == "p" \o ToString(i)
UsedPhotos ==
    {user_data["photos"][i] : i \in 1..Len(Get(user_data, "photos", <<>>))}
    \cup UNION {{pages[p].blocks[k].text : k \in {x \in 1..Len(pages[p].blocks) :
                                                   pages[p].blocks[x].type = "image"}} :
                p \in 1..Len(pages)}
NextPhoto ==
    PhotoName(CHOOSE i \in 1..(Cardinality(UsedPhotos) + 1) :
                  /\ PhotoName(i) \notin UsedPhotos
                  /\ \A j \in 1..(i - 1) : PhotoName(j) \in UsedPhotos)

MenuActions == (DOMAIN MenuStates) \cup {"finish_updating", "toggle_s"}

\* The sizes a specification lets the database and the draft grow to.
Within(maxPages, maxPhotos, maxBlocks, maxText) ==
    /\ Len(pages) <= maxPages
    /\ "photos" \in DOMAIN user_data => Len(user_data["photos"]) <= maxPhotos
    /\ \A i \in 1..Len(pages) :
         /\ Len(pages[i].blocks) <= maxBlocks
         /\ \A k \in 1..Len(pages[i].blocks) :
              pages[i].blocks[k].type = "paragraph" => Len(pages[i].blocks[k].text) <= maxText

\* The step stays within the bounds: Commit writes a page of any draft, and
\* an update makes a page longer only up to maxBlocks blocks.
Bounded(maxBlocks) ==
    /\ Within(MaxPages, MaxPhotos, 2 * Cardinality(DOMAIN heading_map) + 1 + MaxPhotos,
              MaxTextLen)'
    /\ \A i \in 1..Len(pages) :
         Len(pages'[i].blocks) > Len(pages[i].blocks) => Len(pages'[i].blocks) <= maxBlocks

Small == Bounded(MaxBlocks)

InitCommon ==
    /\ running = FALSE
    /\ starts = 0
    /\ jobs = {}
    /\ chat = [msg |-> "", count |-> 0, outcome |-> "", flip |-> 0]
    /\ chain = NoChain
    /\ conv = "END"
    /\ user_data = EmptyDict
    /\ diary_entries = EmptyDict
    /\ api = <<>>

\* ------------------------------------------- the scheduler's specification
\* The clock starts at 19:00 of day 0 and stops at the instants of WakeTimes:
\* midnight, the prompt time, the tick after it, 23:00, and whenever a job is
\* due.  The conversation is the shortest one that creates an entry.
WakeTimes ==
    {d * TicksPerDay + x : d \in 0..(MaxDays - 1),
                           x \in {0, PromptTime, PromptTime + 1, Minutes(23 * 60)}}
    \cup {j.due : j \in jobs}

InitSched ==
    /\ InitCommon
    /\ now = Minutes(19 * 60)
    /\ utcOffset = Minutes(60)
    /\ pages = <<>>

NextSched ==
    \/ \E t \in WakeTimes : Advance(t)
    \/ Stop
    \/ \E okq \in BOOLEAN : Start(okq)
    \/ \E j \in jobs, outcome \in Outcomes : daily_prompt(j, outcome)
    \/ \E j \in jobs, outcome \in Outcomes : send_reminder(j, outcome)
    \/ start
    \/ memorable("A")
    \/ grateful("A")
    \/ worries("no")
    \/ done_checkboxes(TRUE)
    \/ emoji(Smile, TRUE)
    \/ \E ok \in BOOLEAN : done_photo(ok, ok) /\ Small

SpecSched == InitSched /\ [][NextSched]_vars

\* --------------------------------------- the conversation's specifications
\* A page an earlier installation created at the local time of day t of day 0.
EarlierPage(t) ==
    [ created |-> t - utcOffset, parses |-> TRUE,
      S |-> TRUE, Sleep |-> FALSE, Tears |-> FALSE, Photos |-> FALSE, icon |-> None,
      blocks |-> <<Heading(heading_map["memorable"]), Paragraph("A")>> ]

\* At the first start the database is empty or holds a page created at 08:00;
\* the clock stands at 10:00 of day 0.
InitConv ==
    /\ InitCommon
    /\ now = Minutes(10 * 60)
    /\ utcOffset = Minutes(60)
    /\ pages \in {<<>>, <<EarlierPage(Minutes(8 * 60))>>}

\* SpecConv: every handler, with one reply of each kind, on one day; an
\* update makes a page longer by up to a section less than in SpecDoc.
NextConv ==
    \/ \E okq \in BOOLEAN : Start(okq)
    \/ start
    \/ yes_update
    \/ cancel_update
    \/ memorable("A")
    \/ grateful("A")
    \/ worries("None")
    \/ toggle_checkbox("toggle_s")
    \/ done_checkboxes(TRUE)
    \/ \E user_emoji \in {Smile, Skip} : emoji(user_emoji, TRUE)
    \/ photo(NextPhoto) /\ Bounded(MaxBlocks - 2)
    \/ \E ok \in BOOLEAN : done_photo(ok, ok) /\ Bounded(MaxBlocks - 2)
    \/ \E action \in MenuActions : updating_menu_handler(action)
    \/ \E field \in DOMAIN heading_map, ok \in BOOLEAN :
           update_text_field(field, "B", ok, ok) /\ Bounded(MaxBlocks - 2)
    \/ cancel

SpecConv == InitConv /\ [][NextConv]_vars

\* SpecDoc: the writes to one day's page: Commit with and without worries
\* and photos, then text updates of every field and rounds of photos.
NextDoc ==
    \/ \E okq \in BOOLEAN : Start(okq)
    \/ start
    \/ yes_update
    \/ memorable("A")
    \/ grateful("A")
    \/ \E text \in {"B", "None"} : worries(text)
    \/ done_checkboxes(TRUE)
    \/ emoji(Skip, TRUE)
    \/ photo(NextPhoto) /\ Small
    \/ \E ok1, ok2 \in BOOLEAN :
           done_photo(ok1, ok2) /\ Small
    \/ \E action \in MenuActions : updating_menu_handler(action)
    \/ \E field \in DOMAIN heading_map, okq, okw \in BOOLEAN :
           update_text_field(field, "B", okq, okw) /\ Small

SpecDoc == InitConv /\ [][NextDoc]_vars

\* SpecRestart: one day on which the process is stopped and started again
\* in the middle of a session.  The database is empty, or holds a page an
\* earlier installation created today at 00:30 or at 08:00 local time, at
\* either offset of Europe/Zurich from UTC.
InitRestart ==
    /\ InitCommon
    /\ now = Minutes(10 * 60)
    /\ utcOffset \in {Minutes(60), Minutes(120)}
    /\ pages \in {<<>>, <<EarlierPage(Minutes(30))>>, <<EarlierPage(Minutes(8 * 60))>>}

NextRestart ==
    \/ Stop
    \/ \E okq \in BOOLEAN : Start(okq)
    \/ start
    \/ yes_update
    \/ cancel_update
    \/ memorable("A")
    \/ grateful("A")
    \/ worries("None")
    \/ \E ok \in BOOLEAN : done_checkboxes(ok)
    \/ \E ok \in BOOLEAN : emoji(Skip, ok)
    \/ photo(NextPhoto) /\ Small
    \/ \E ok1, ok2 \in BOOLEAN :
           done_photo(ok1, ok2) /\ Small
    \/ \E action \in {"update_photos", "finish_updating"} : updating_menu_handler(action)
    \/ cancel

SpecRestart == InitRestart /\ [][NextRestart]_vars

\* SpecEmoji: the emoji step of both modes, with replies of one and of
\* several characters from inside, outside and the ends of the pattern's
\* ranges.
EmojiReplies ==
    { <<c>> : c \in { 33, 48, 65, 97, 169, 8252, 9409, 9410, 9728, 9985, 9986, 10084,
                      10160, 12354, 20013, 44032, 65039, 127569, 127570, 127743,
                      127744, 128512, 129791, 129792 } }
    \cup { Skip, <<128512, 128512>>, <<10084, 65039>>, <<20013, 22269>>, <<65, 128512>> }

InitEmoji ==
    /\ InitCommon
    /\ now = Minutes(10 * 60)
    /\ utcOffset = Minutes(60)
    /\ pages \in {<<>>, <<EarlierPage(Minutes(8 * 60))>>}

NextEmoji ==
    \/ Start(TRUE)
    \/ start
    \/ yes_update
    \/ memorable("A")
    \/ grateful("A")
    \/ worries("None")
    \/ \E data \in DOMAIN toggle_map : toggle_checkbox(data)
    \/ done_checkboxes(TRUE)
    \/ \E user_emoji \in EmojiReplies, ok \in BOOLEAN : emoji(user_emoji, ok)
    \/ \E action \in {"update_emoji", "finish_updating"} : updating_menu_handler(action)

SpecEmoji == InitEmoji /\ [][NextEmoji]_vars

\* SpecPaging: pages of up to PageSize + 4 blocks.  Commit writes an entry
\* with up to PageSize photos; the update session then edits Worries.
Long == Within(1, PageSize, PageSize + 4, MaxTextLen)'

InitPaging ==
    /\ InitCommon
    /\ now = Minutes(10 * 60)
    /\ utcOffset = Minutes(60)
    /\ pages = <<>>

NextPaging ==
    \/ Start(TRUE)
    \/ start
    \/ yes_update
    \/ memorable("A")
    \/ grateful("A")
    \/ worries("None")
    \/ done_checkboxes(TRUE)
    \/ emoji(Skip, TRUE)
    \/ photo(NextPhoto) /\ Long
    \/ done_photo(TRUE, TRUE) /\ Long
    \/ \E action \in {"update_worries", "finish_updating"} : updating_menu_handler(action)
    \/ \E text \in {"A", "B"} : update_text_field("worries", text, TRUE, TRUE) /\ Long

SpecPaging == InitPaging /\ [][NextPaging]_vars

\* SpecRebuild: the start-up rebuild over databases of up to MaxRemote
\* pages that earlier installations created yesterday at 08:00 or today at
\* 00:30 or 08:00 local time, with and without an icon, well formed or not.
RemotePage(t, icon, parses) ==
    [EarlierPage(t) EXCEPT !.icon = icon, !.parses = parses]

RemotePages ==
    {RemotePage(t, icon, parses) :
        t \in {Minutes(8 * 60) - TicksPerDay, Minutes(30), Minutes(8 * 60)},
        icon \in {None, Smile}, parses \in BOOLEAN}

InitRebuild ==
    /\ InitCommon
    /\ now = Minutes(10 * 60)
    /\ utcOffset = Minutes(60)
    /\ pages \in UNION {[1..n -> RemotePages] : n \in 0..MaxRemote}

NextRebuild ==
    \/ \E okq \in BOOLEAN : Start(okq)
    \/ Stop

SpecRebuild == InitRebuild /\ [][NextRebuild]_vars

\* SpecWorries: the session that creates an entry up to the photos,
\* with replies to the worries question in several spellings.
WorriesReplies ==
    {"none", "None", "NONE", "nonE", "no", "No", "NO", "nO", "nope", "Nope", "NOPE",
     "Nothing", "No.", "no ", "not", "B"}

NextWorries ==
    \/ Start(TRUE)
    \/ start
    \/ memorable("A")
    \/ grateful("A")
    \/ \E text \in WorriesReplies : worries(text)
    \/ \E data \in DOMAIN toggle_map : toggle_checkbox(data)
    \/ done_checkboxes(TRUE)
    \/ \E user_emoji \in {Smile, Skip} : emoji(user_emoji, TRUE)
    \/ cancel

\* The database is empty, as in SpecPaging.
SpecWorries == InitPaging /\ [][NextWorries]_vars

\* ------------------------------------------------------------------ claims
Reminders(day) == {j \in jobs : j.kind = "reminder" /\ j.origin = day}
PromptsDue(day) == {j \in jobs : j.kind \in PromptJobs /\ DateOf(j.due) = day}

\* C1 as stated: while no prompt of the day was delivered, delivery is
\* attempted at most 3 times that day and no reminder ladder is scheduled.
C1_AtMostThreeAttempts ==
    ~chain.delivered => chain.count <= 3 /\ Reminders(get_today_iso) = {}

\* C1: in one process run the prompt is attempted at most 1 + 3 times a day
\* (the trigger's attempt and three retries); a retry is due 5 minutes after
\* the attempt that failed with a network error; while none was delivered no
\* reminder ladder is scheduled, and after the last attempt no further one is
\* pending that day.
C1_FourAttempts ==
    /\ [](/\ chain.count <= 1 + MaxRetries
          /\ ~chain.delivered => Reminders(get_today_iso) = {}
          /\ chain.count = 1 + MaxRetries => PromptsDue(get_today_iso) = {})
    /\ [][\A j \in jobs' \ jobs :
            j.kind = "daily_prompt_retry" =>
                /\ j.due = now + Minutes(5)
                /\ chat'.msg = "prompt" /\ chat'.outcome = "network"
                /\ chat'.flip # chat.flip]_vars

\* C1 witness: the daily trigger's third retry has just failed at 20:15.
C1_Witness ==
    /\ chain = [count |-> 4, delivered |-> FALSE]
    /\ chat.msg = "prompt" /\ chat.count = 3 /\ chat.outcome = "network"
    /\ TimeOfDay(now) = PromptTime + 3 * Minutes(5)
    /\ PromptsDue(get_today_iso) = {}

\* C2: a rung of the reminder ladder that fires when the index has an entry
\* for the day its prompt was delivered sends nothing and schedules nothing.
C2_EntryStopsLadder ==
    [][\A j \in jobs, outcome \in Outcomes :
         (send_reminder(j, outcome) /\ HasEntry(j.origin)) =>
             (chat' = chat /\ jobs' = jobs \ {j})]_vars

\* C3: once a date has an entry in the index, the entry's page id never
\* changes: creating a page on a date that has one leaves the index alone.
C3_DocumentIdNeverChanges ==
    [][\A day \in DOMAIN diary_entries :
         /\ day \in DOMAIN diary_entries'
         /\ diary_entries'[day].page_id = diary_entries[day].page_id]_vars

\* C4: a successful update of a field whose page has no heading with the
\* field's label appends the heading and a paragraph with the text at the
\* end; a successful update that finds the page as such an update left it
\* (the only heading with the label second to last, a paragraph last) joins
\* the text to that paragraph with two newlines and adds no block.
Labelled(blocks, label) == {i \in 1..Len(blocks) : blocks[i] = Heading(label)}

C4_AppendThenMerge ==
    [][\A field \in DOMAIN heading_map, text \in {"A", "B"} :
         (update_text_field(field, text, TRUE, TRUE) /\ TodayPageId # 0) =>
            LET b == pages[TodayPageId].blocks
                after == pages'[TodayPageId].blocks
                label == heading_map[field]
            IN /\ Labelled(b, label) = {} =>
                     after = b \o <<Heading(label), Paragraph(text)>>
               /\ (Labelled(b, label) = {Len(b) - 1} /\ b[Len(b)].type = "paragraph") =>
                     after = [b EXCEPT ![Len(b)].text = @ \o "\n\n" \o text]]_vars

\* C5 as stated: in every page every heading is immediately followed by
\* exactly one paragraph.
Followed(blocks, i) ==
    /\ i < Len(blocks)
    /\ blocks[i + 1].type = "paragraph"
    /\ i + 2 <= Len(blocks) => blocks[i + 2].type # "paragraph"

C5_EveryHeadingThenParagraph ==
    \A p \in 1..Len(pages) : \A i \in 1..Len(pages[p].blocks) :
        pages[p].blocks[i].type = "heading_2" => Followed(pages[p].blocks, i)

\* C5, corrected: in every page every heading with the label of a text field
\* is immediately followed by exactly one paragraph, and every other heading
\* is "Pics", immediately followed by an image.
FieldLabels == {heading_map[field] : field \in DOMAIN heading_map}

C5_FieldHeadingThenParagraph ==
    \A p \in 1..Len(pages) : \A i \in 1..Len(pages[p].blocks) :
        LET blocks == pages[p].blocks
        IN blocks[i].type = "heading_2" =>
              IF blocks[i].text \in FieldLabels
              THEN Followed(blocks, i)
              ELSE /\ blocks[i].text = "Pics"
                   /\ i < Len(blocks) /\ blocks[i + 1].type = "image"

\* A page Commit wrote with photos, to which an update appended a Worries
\* section and a later update merged a text into it.
C5_Witness ==
    \E p \in 1..Len(pages) :
        LET blocks == pages[p].blocks
            n == Len(blocks)
        IN /\ \E i \in 1..n : blocks[i] = Heading("Pics")
           /\ n >= 3
           /\ blocks[n - 2].type = "image"
           /\ blocks[n - 1] = Heading(heading_map["worries"])
           /\ blocks[n] = Paragraph("B\n\nB")

\* C6: an accepted icon is one character and not a character of plain text:
\* not a letter, digit or punctuation mark of ASCII and not a kana, a CJK
\* ideograph or a Hangul syllable.
PlainText(c) ==
    \/ InRange(c, 33, 126)
    \/ InRange(c, 12352, 12543)      \* 3040-30FF hiragana, katakana
    \/ InRange(c, 19968, 40959)      \* 4E00-9FFF CJK unified ideographs
    \/ InRange(c, 44032, 55203)      \* AC00-D7A3 Hangul syllables

C6_PlainTextRejected ==
    "icon" \in DOMAIN user_data =>
        Len(user_data["icon"]) = 1 /\ ~PlainText(user_data["icon"][1])

\* C7: the rebuilt index files every page under the Europe/Zurich date of
\* its creation time.
C7_KeyIsLocalDate ==
    \A day \in DOMAIN diary_entries :
        DateOf(pages[diary_entries[day].page_id].created + utcOffset) = day

\* C8: in a session that creates an entry, no step before "Done" in PHOTO
\* sends a write to Notion or changes the index or a page.
Writes == {"createPage", "patchPageProperties", "appendBlocks", "patchBlock"}
CreateStates == {"MEMORABLE", "GRATEFUL", "WORRIES", "ASKING_CHECKBOXES", "ASKING_EMOJI",
                 "PHOTO"}

C8_NoWriteBeforeDone ==
    [][(/\ running /\ conv \in CreateStates /\ ~IsUpdate(user_data)
        /\ ~(\E ok1, ok2 \in BOOLEAN : done_photo(ok1, ok2)))
       => /\ \A i \in DOMAIN api' : api'[i].op \notin Writes
          /\ diary_entries' = diary_entries
          /\ pages' = pages]_vars

\* A new entry's session in PHOTO, its draft filled, a flag set and a photo
\* received, and nothing written yet.
C8_Witness ==
    /\ conv = "PHOTO" /\ ~IsUpdate(user_data)
    /\ HasText(user_data, "memorable") /\ Get(user_data, "checkbox_s", FALSE)
    /\ HasPhotos(user_data)
    /\ pages = <<>> /\ diary_entries = EmptyDict /\ api = <<>>

\* C9: no photo is appended to a page twice (every photo has a file path of
\* its own).
C9_EachPhotoOnce ==
    \A p \in 1..Len(pages) : \A i, j \in 1..Len(pages[p].blocks) :
        LET blocks == pages[p].blocks
        IN (i # j /\ blocks[i].type = "image" /\ blocks[j].type = "image")
              => blocks[i].text # blocks[j].text

\* C10: a step that requests createPage is "Done" in PHOTO of a session that
\* is not an update; a session that is an update stays one until it ends or
\* /start begins another.
C10_CreateOnlyInCreateMode ==
    [][/\ (\E i \in DOMAIN api' : api'[i].op = "createPage") =>
             /\ conv = "PHOTO" /\ ~IsUpdate(user_data)
             /\ \E ok1, ok2 \in BOOLEAN : done_photo(ok1, ok2)
       /\ (IsUpdate(user_data) /\ ~start) => (IsUpdate(user_data') \/ conv' = "END")]_vars

\* "Done" in PHOTO of an update session has appended photos to the page
\* that the session of the same run created.
C10_Witness ==
    /\ conv = "UPDATING_MENU" /\ IsUpdate(user_data)
    /\ Len(api) = 2 /\ api[1] = Call("appendBlocks", TRUE)
    /\ TodayPageId # 0
    /\ pages[TodayPageId].blocks[1] = Heading(heading_map["memorable"])
    /\ pages[TodayPageId].blocks[Len(pages[TodayPageId].blocks)].type = "image"

\* C11: /cancel is accepted in every state of an active conversation; it
\* ends the conversation and empties the draft, sends no Notion request and
\* leaves the index and the pages alone; and no step of an ended conversation
\* requests createPage.
C11_CancelDiscards ==
    /\ []((running /\ conv # "END") => ENABLED cancel)
    /\ [][/\ cancel => /\ conv' = "END" /\ user_data' = EmptyDict
                       /\ api' = <<>>
                       /\ diary_entries' = diary_entries /\ pages' = pages
          /\ conv = "END" => \A i \in DOMAIN api' : api'[i].op # "createPage"]_vars

\* A session that was creating an entry has been cancelled: nothing but
\* /cancel ends a conversation with an empty draft and no request while the
\* index and the database are empty.
C11_Witness ==
    /\ running /\ conv = "END" /\ user_data = EmptyDict /\ api = <<>>
    /\ diary_entries = EmptyDict /\ pages = <<>>

\* C12: "Done" of a session that creates an entry registers today's date
\* with the new page's id and the draft's icon when createPage succeeds and
\* leaves the index and the database as they are when it fails; a prompt job
\* that fires while today has no entry sends the prompt.
C12_RegisteredIffCreated ==
    [][/\ \A ok1, ok2 \in BOOLEAN :
            (done_photo(ok1, ok2) /\ ~IsUpdate(user_data)) =>
                IF ok1
                THEN /\ Len(pages') = Len(pages) + 1
                     /\ diary_entries' =
                           Put(diary_entries, get_today_iso,
                               [page_id |-> Len(pages'),
                                icon |-> Get(user_data, "icon", None)])
                ELSE diary_entries' = diary_entries /\ pages' = pages
       /\ \A j \in jobs, outcome \in Outcomes :
            (daily_prompt(j, outcome) /\ ~HasEntry(get_today_iso)) =>
                (chat'.msg = "prompt" /\ chat'.flip # chat.flip)]_vars

\* createPage has just failed for a draft with an icon while the ladder of
\* today's prompt is pending: today has no entry.
C12_Witness ==
    /\ conv = "END" /\ api = <<Call("createPage", FALSE)>>
    /\ Get(user_data, "icon", None) = Smile
    /\ ~HasEntry(get_today_iso) /\ pages = <<>>
    /\ Reminders(get_today_iso) # {}

\* C13: a step whose block query fails sends no other request, leaves the
\* pages, the draft and the index as they are, and takes the session from
\* the field's state back to the menu.
C13_FailedQueryWritesNothing ==
    [][(\E i \in DOMAIN api' : api'[i] = Call("queryBlocks", FALSE)) =>
          /\ api' = <<Call("queryBlocks", FALSE)>>
          /\ pages' = pages /\ user_data' = user_data /\ diary_entries' = diary_entries
          /\ conv \in DOMAIN UpdatingField /\ conv' = "UPDATING_MENU"]_vars

\* The block query of an update of today's page has just failed.
C13_Witness ==
    /\ conv = "UPDATING_MENU" /\ IsUpdate(user_data)
    /\ api = <<Call("queryBlocks", FALSE)>>
    /\ TodayPageId # 0

\* C14: after a start whose rebuild query succeeded, the index holds exactly
\* the Europe/Zurich creation dates of the well-formed pages, each date with
\* the id and the icon of a page created on it.
WellFormed == {i \in 1..Len(pages) : pages[i].parses}
LocalDate(i) == DateOf(pages[i].created + utcOffset)

C14_IndexOfParsedPages ==
    api = <<Call("queryDatabase", TRUE)>> =>
        /\ DOMAIN diary_entries = {LocalDate(i) : i \in WellFormed}
        /\ \A day \in DOMAIN diary_entries : \E i \in WellFormed :
              /\ LocalDate(i) = day
              /\ diary_entries[day] = [page_id |-> i, icon |-> pages[i].icon]

\* C15: the page a successful createPage has just stored for the draft has,
\* for the draft's non-empty fields in the order memorable, grateful,
\* worries, a heading with the field's label and then a paragraph with the
\* field's text; after them, when the draft has photos, the heading "Pics"
\* and one image per photo in the order received, and nothing else; its
\* Photos property is true exactly when the draft has photos.
FieldOrder == <<"memorable", "grateful", "worries">>
IsFilled(field) == field \in DOMAIN user_data /\ user_data[field] # ""
IsImage(block) == block.type = "image"
Texts(blocks) == [i \in 1..Len(blocks) |-> blocks[i].text]

C15_CommitContent ==
    api = <<Call("createPage", TRUE)>> =>
        LET page == pages[Len(pages)]
            blocks == page.blocks
            filled == SelectSeq(FieldOrder, IsFilled)
            photos == Get(user_data, "photos", <<>>)
            n == 2 * Len(filled)
        IN /\ Len(blocks) = n + (IF photos = <<>> THEN 0 ELSE 1 + Len(photos))
           /\ \A k \in 1..Len(filled) :
                 /\ blocks[2 * k - 1] = [type |-> "heading_2", text |-> heading_map[filled[k]]]
                 /\ blocks[2 * k] = [type |-> "paragraph", text |-> user_data[filled[k]]]
           /\ photos # <<>> =>
                 /\ blocks[n + 1] = [type |-> "heading_2", text |-> "Pics"]
                 /\ \A k \in 1..Len(photos) : IsImage(blocks[n + 1 + k])
           /\ Texts(SelectSeq(blocks, IsImage)) = photos
           /\ page.Photos = (photos # <<>>)

\* A draft with worries and two photos has just been stored.
C15_Witness ==
    /\ api = <<Call("createPage", TRUE)>>
    /\ IsFilled("worries") /\ Len(user_data["photos"]) = 2
    /\ Len(pages[Len(pages)].blocks) = 9

\* C16: a reply to the worries question that is "none", "no" or "nope" in
\* any mix of upper and lower case leaves the draft without worries, any
\* other reply becomes the draft's worries as it was typed, and both take
\* the session to the checkboxes.
NoWorriesSpellings ==
    {"none", "None", "NONE", "nonE", "no", "No", "NO", "nO", "nope", "Nope", "NOPE"}

C16_WorriesReply ==
    [][\A text \in WorriesReplies :
         worries(text) =>
            /\ conv' = "ASKING_CHECKBOXES"
            /\ IF text \in NoWorriesSpellings
               THEN "worries" \notin DOMAIN user_data'
               ELSE "worries" \in DOMAIN user_data' /\ user_data'["worries"] = text
            /\ \A k \in DOMAIN user_data : user_data'[k] = user_data[k]]_vars

\* The worries question has been answered in a session that creates an
\* entry, and the draft has no worries.
C16_Witness ==
    /\ conv = "ASKING_CHECKBOXES" /\ ~IsUpdate(user_data)
    /\ "grateful" \in DOMAIN user_data /\ "worries" \notin DOMAIN user_data

\* C17: a firing of the prompt job (the daily trigger, a retry or the start-up
\* catch-up) that finds an entry for today in the index sends nothing and
\* schedules neither a retry nor a reminder: the queue only loses the job, or
\* moves the daily trigger to the next day.
C17_PromptNoOpWithEntry ==
    [][\A j \in jobs, outcome \in Outcomes :
         (daily_prompt(j, outcome) /\ HasEntry(get_today_iso)) =>
             /\ chat' = chat
             /\ jobs' \ jobs \subseteq {[j EXCEPT !.due = @ + TicksPerDay]}
             /\ \A k \in jobs' \ jobs : k.kind = "daily_prompt"
             /\ Reminders(get_today_iso)' = Reminders(get_today_iso)
             /\ PromptsDue(get_today_iso)' = PromptsDue(get_today_iso) \ {j}]_vars

\* C17 witness: at 20:00 the daily trigger has fired and moved to the next
\* day without an attempt to send, the index having an entry for today.
C17_Witness ==
    /\ running /\ HasEntry(get_today_iso)
    /\ TimeOfDay(now) = PromptTime
    /\ Job("daily_prompt", now + TicksPerDay, 0, 0) \in jobs
    /\ chain.count = 0
    /\ chat.msg # "prompt"

\* C18: a successful update of a text field does one of two things.  If the
\* first heading of the page with the field's label is immediately followed
\* by a paragraph, that paragraph's text becomes old text, two newlines, new
\* text, and nothing else changes; otherwise every block stays as it is and
\* one heading with the label and one paragraph with the new text are
\* appended at the end.
FirstLabelled(blocks, label) ==
    CHOOSE i \in Labelled(blocks, label) : \A k \in Labelled(blocks, label) : i <= k

C18_MergeOrAppend ==
    [][\A field \in DOMAIN heading_map, text \in {"A", "B"} :
         (update_text_field(field, text, TRUE, TRUE) /\ TodayPageId # 0) =>
            LET b == pages[TodayPageId].blocks
                after == pages'[TodayPageId].blocks
                label == heading_map[field]
            IN IF /\ Labelled(b, label) # {}
                  /\ FirstLabelled(b, label) < Len(b)
                  /\ b[FirstLabelled(b, label) + 1].type = "paragraph"
               THEN after = [b EXCEPT ![FirstLabelled(b, label) + 1].text =
                                          @ \o "\n\n" \o text]
               ELSE after = b \o <<Heading(label), Paragraph(text)>>]_vars

\* C19: a reminder ladder starts only with a delivered prompt, rung 0 due 2
\* hours after it; a rung that fires while the index has no entry for today
\* sends the message of its own number, rung 0 then schedules rung 1 after 30
\* minutes and rung 1 schedules rung 2 after 90 minutes, rung 2 schedules
\* nothing; a rung above 0 is scheduled only by the firing of the rung before
\* it, and there is no rung above 2.
C19_ReminderLadder ==
    /\ [](\A j \in jobs : j.kind = "reminder" => j.count \in 0..2)
    /\ [][/\ \A k \in jobs' \ jobs :
               k.kind = "reminder" =>
                  IF k.count = 0
                  THEN /\ chat'.msg = "prompt" /\ chat'.outcome = "ok"
                       /\ chat'.flip # chat.flip
                       /\ k.due = now + Minutes(2 * 60)
                  ELSE \E j \in jobs \ jobs' :
                          j.kind = "reminder" /\ j.due = now /\ j.count + 1 = k.count
          /\ \A j \in jobs, outcome \in Outcomes :
               (send_reminder(j, outcome) /\ ~HasEntry(get_today_iso)) =>
                  /\ chat'.msg = reminder_messages[j.count + 1]
                  /\ chat'.flip # chat.flip
                  /\ jobs \ jobs' = {j}
                  /\ jobs' \ jobs =
                        CASE j.count = 0 -> {Job("reminder", now + Minutes(30), 1, j.origin)}
                          [] j.count = 1 -> {Job("reminder", now + Minutes(90), 2, j.origin)}
                          [] OTHER -> {}]_vars

\* C20: a firing of the prompt job whose send_message raises an exception
\* that is not a NetworkError schedules nothing: no retry and no reminder;
\* the only prompt job left is the daily trigger, due on a later day.
C20_OtherErrorSchedulesNothing ==
    [][\A j \in jobs :
         (daily_prompt(j, "other") /\ ~HasEntry(get_today_iso)) =>
             /\ chat'.msg = "prompt" /\ chat'.outcome = "other"
             /\ \A k \in jobs' \ jobs :
                   k = [j EXCEPT !.due = @ + TicksPerDay] /\ k.kind = "daily_prompt"
             /\ Reminders(get_today_iso)' = Reminders(get_today_iso)
             /\ PromptsDue(get_today_iso)' = PromptsDue(get_today_iso) \ {j}]_vars

\* C20 witness: the daily trigger's send has just failed at 20:00 with an
\* error of another class, and the queue holds only tomorrow's trigger.
C20_Witness ==
    /\ running /\ ~HasEntry(get_today_iso)
    /\ TimeOfDay(now) = PromptTime
    /\ chat.msg = "prompt" /\ chat.count = 0 /\ chat.outcome = "other"
    /\ chain = [count |-> 1, delivered |-> FALSE]
    /\ jobs = {Job("daily_prompt", now + TicksPerDay, 0, 0)}

\* C21: in a session that updates an entry, a text for a field (whether its
\* requests succeed or fail), "Continue" on the checkboxes, a reply to the
\* emoji question and "Done" on the photos all return to the menu; a button
\* the menu does not know leaves the session at the menu; and the session
\* ends only with "Finish Updating" or /cancel.
Updating == running /\ IsUpdate(user_data) /\ conv # "END"

C21_BackToMenu ==
    [][Updating =>
         /\ ( \/ \E field \in DOMAIN heading_map, text \in {"A", "B"}, okq, okw \in BOOLEAN :
                    update_text_field(field, text, okq, okw)
              \/ \E ok \in BOOLEAN : done_checkboxes(ok)
              \/ \E user_emoji \in {Smile, Skip}, ok \in BOOLEAN : emoji(user_emoji, ok)
              \/ \E ok1, ok2 \in BOOLEAN : done_photo(ok1, ok2) )
            => conv' = "UPDATING_MENU"
         /\ \A action \in MenuActions \ (DOMAIN MenuStates \cup {"finish_updating"}) :
               updating_menu_handler(action) => conv' = "UPDATING_MENU"
         /\ conv' = "END" => (updating_menu_handler("finish_updating") \/ cancel)]_vars

\* C21 witness: the block query of a text update has just failed and the
\* session is back at the menu.
C21_Witness ==
    /\ Updating /\ conv = "UPDATING_MENU"
    /\ api = <<Call("queryBlocks", FALSE)>>

\* C22: in a session that updates an entry, a reply to the emoji question (an
\* emoji, another text or "Skip") leaves the three checkboxes S, Sleep
\* separate and Tears of every page as they were: only the icon may change.
Flags(p) == <<p.S, p.Sleep, p.Tears>>

C22_EmojiKeepsFlags ==
    [][\A user_emoji \in {Smile, Skip}, ok \in BOOLEAN :
         (emoji(user_emoji, ok) /\ IsUpdate(user_data)) =>
             \A p \in 1..Len(pages) :
                /\ Flags(pages'[p]) = Flags(pages[p])
                /\ pages'[p].blocks = pages[p].blocks
                /\ pages'[p].Photos = pages[p].Photos]_vars

\* C23: while every request to Notion succeeds, the icon the index holds for
\* a date is the icon of that date's page: no step whose requests all succeed
\* takes the index from agreeing with the pages to disagreeing, a reply to
\* the emoji question of an update session that is not an emoji included.
IconsAgree ==
    \A day \in DOMAIN diary_entries :
        diary_entries[day].icon = pages[diary_entries[day].page_id].icon

C23_IndexIconIsPageIcon ==
    [][((\A i \in 1..Len(api') : api'[i].ok) /\ IconsAgree) => IconsAgree']_vars

\* C24: the database never holds two pages of the bot for one Europe/Zurich
\* calendar date, whatever the sessions, the failed requests, the restarts
\* and the rebuilds of the index.
C24_OnePagePerDate ==
    \A p, q \in 1..Len(pages) :
        LocalDate(p) = LocalDate(q) => p = q

\* C25: whatever entries the bot writes and however it updates them, a page
\* has at most one heading with the label of each text field, pages of more
\* than PageSize blocks included.
C25_OneHeadingPerField ==
    \A p \in 1..Len(pages) : \A field \in DOMAIN heading_map :
        Cardinality(Labelled(pages[p].blocks, heading_map[field])) <= 1

\* C26: in every state, also after failed requests, a page whose checkbox
\* Photos is set has at least one image block.
C26_PhotosFlagHasImage ==
    \A p \in 1..Len(pages) :
        pages[p].Photos => \E k \in 1..Len(pages[p].blocks) : pages[p].blocks[k].type = "image"

\* C27: in a process run the queue never holds more than one reminder job
\* nor more than one prompt job besides the daily trigger (a retry or the
\* start-up catch-up): two reminder ladders are never active at once.
C27_OneLadderOnePrompt ==
    /\ Cardinality({j \in jobs : j.kind = "reminder"}) <= 1
    /\ Cardinality({j \in jobs : j.kind \in PromptJobs \ {"daily_prompt"}}) <= 1

\* C27 witness: the trigger's first attempt failed, its retry was delivered,
\* rung 0 of the ladder has fired and rung 1 is the one reminder pending.
C27_Witness ==
    /\ running
    /\ chain = [count |-> 2, delivered |-> TRUE]
    /\ {j \in jobs : j.kind = "reminder"} =
          {Job("reminder", PromptTime + RetryDelay + FirstReminderDelay + next_reminder_delays[1],
               1, get_today_iso)}
    /\ chat.msg = reminder_messages[1]


====
